---------------------------- MODULE Spec2Model ----------------------------
(***************************************************************************)
(* Model of the rag_api package: the text chunker, the chunk-ID generator  *)
(* and the PDF extraction of file_processing.py, the vector-store client   *)
(* of utils.py, and the three request handlers of views.py.                *)
(*                                                                         *)
(* A Python str is a sequence of one-character strings; Python indices are *)
(* 0-based, TLA+ sequences 1-based.                                        *)
(***************************************************************************)
EXTENDS Integers, Sequences, FiniteSets, TLC

VARIABLES
    \* frame of simple_chunker
    text, chunk_size, chunk_overlap, chunks, start, endv, starts, cpc,
    \* the wall clock, in whole seconds
    clock,
    \* frame of generate_chunk_ids
    filename, num_chunks, timestamp, base_name_safe, ids, gpc,
    \* IDs returned by an earlier call: [name, base, ts, idx, id]
    issued,
    \* utils._chroma_client, the module singleton
    chroma_client,
    \* the request being handled, the handler's position and its response
    request, vpc, response,
    \* locals of IngestView.post
    documents_data, ingest_ids, ingest_texts, metadatas_prepared,
    \* locals of FileUploadIngestView.post
    extracted_text, upload_chunks, chunk_ids, metadatas,
    \* the embeddings returned by embed_text_gemini
    embeddings,
    \* the arguments of the collection.add call being made
    addCall,
    \* locals of RagQueryView.post: validated top_k, retrieved documents, the
    \* local `response` of line 217 and the answer
    top_k, retrieved_documents, gen_response, answer,
    \* whether the vector store can be reached
    store_up,
    \* the calls the handler has made for the request, with their results
    trace,
    \* threads calling get_chroma_client: each one's position, the client it
    \* was returned and the number of calls it has made; the number of
    \* chromadb.HttpClient objects constructed
    tpc, returned, calls, constructed,
    \* frame of extract_text_from_pdf_with_ocr: the libraries imported, the
    \* pages of the file, text, ocr_text, the page being read, the outcome
    pypdf, ocr_libs, pdf_pages, pdf_text, ocr_text, pdf_i, pdf_result, ppc,
    \* whether the except clause of line 80 was entered
    ocr_error

chunkerVars == <<text, chunk_size, chunk_overlap, chunks, start, endv, starts, cpc>>

idVars == <<filename, num_chunks, timestamp, base_name_safe, ids, gpc>>

ingestVars == <<documents_data, ingest_ids, ingest_texts, metadatas_prepared>>

uploadVars == <<extracted_text, upload_chunks, chunk_ids, metadatas>>

queryVars == <<top_k, retrieved_documents, gen_response, answer>>

handlerVars == <<request, vpc, response, ingestVars, uploadVars, embeddings,
                 addCall, queryVars, store_up, trace>>

viewVars == <<chroma_client, handlerVars>>

threadVars == <<tpc, returned, calls, constructed>>

pdfVars == <<pypdf, ocr_libs, pdf_pages, pdf_text, ocr_text, pdf_i, pdf_result,
             ppc, ocr_error>>

vars == <<chunkerVars, clock, idVars, issued, viewVars, threadVars, pdfVars>>

----------------------------------------------------------------------------
(* Bounds of the model *)

\* longest enumerated text
MaxLen == 4
\* largest enumerated chunk_size
MaxSize == 3
\* largest enumerated chunk_overlap (beyond MaxSize: degenerate configurations)
MaxOverlap == 4
\* chunks recorded per call; every returning call of the model emits fewer
ChunkCap == 20
\* last second of the clock
MaxClock == 11
\* largest enumerated num_chunks
MaxIds == 3
\* most documents in one ingest request
MaxDocs == 2
\* longest enumerated filename
MaxNameLen == 2

\* threads that call get_chroma_client, and calls made by each
NumThreads == 2
MaxCalls == 2

\* pages of a PDF file
MaxPages == 2

----------------------------------------------------------------------------
(* Python helpers *)

Min(a, b) == IF a < b THEN a ELSE b
Max(a, b) == IF a > b THEN a ELSE b

\* a slice bound as Python normalises it for a sequence of length n
SliceIndex(i, n) == IF i < 0 THEN Max(n + i, 0) ELSE Min(i, n)

\* s[lo:hi]
Slice(s, lo, hi) == SubSeq(s, SliceIndex(lo, Len(s)) + 1, SliceIndex(hi, Len(s)))

\* "c" * n
Repeat(c, n) == [i \in 1..n |-> c]

RECURSIVE Concat(_)
\* "".join(parts)
Concat(parts) == IF parts = <<>> THEN <<>> ELSE Head(parts) \o Concat(Tail(parts))

----------------------------------------------------------------------------
(* Inputs of simple_chunker *)

TextChars == {"a", "b"}

SmallTexts == UNION {[1..n -> TextChars] : n \in 0..MaxLen}

\* "x" * 100
HundredX == Repeat("x", 100)

\* a 3200-character text
LongText == [i \in 1..3200 |-> IF i % 7 = 0 THEN "b" ELSE IF i % 5 = 2 THEN " " ELSE "a"]

\* the configurations of the documented examples
ExampleInputs ==
    { <<HundredX, 10, 10>>, <<HundredX, 10, 12>>, <<HundredX, 10, 3>>,
      <<LongText, 1500, 150>>, <<<<"a", "b", "c">>, 10, 0>> }

ChunkerInputs ==
    (SmallTexts \X (1..MaxSize) \X (0..MaxOverlap)) \cup ExampleInputs

----------------------------------------------------------------------------
(* simple_chunker, file_processing.py 178-196 *)

\* lines 182-186: the empty text returns [] at once; otherwise chunks = [], start = 0
ChunkerEntry ==
    /\ cpc = "entry"
    /\ chunks' = <<>>
    /\ starts' = <<>>
    /\ IF text = <<>>
       THEN cpc' = "done" /\ UNCHANGED start
       ELSE cpc' = "test" /\ start' = 0
    /\ UNCHANGED <<text, chunk_size, chunk_overlap, endv>>
    /\ UNCHANGED <<clock, idVars, issued, viewVars>>
    /\ UNCHANGED <<threadVars, pdfVars>>

\* line 187: while start < len(text)
LoopTest ==
    /\ cpc = "test"
    /\ cpc' = IF start < Len(text) THEN "body" ELSE "done"
    /\ UNCHANGED <<text, chunk_size, chunk_overlap, chunks, start, endv, starts>>
    /\ UNCHANGED <<clock, idVars, issued, viewVars>>
    /\ UNCHANGED <<threadVars, pdfVars>>

\* a window that loses its last character
WindowShort(t, s, size) == Slice(t, s, s + size - 1)

\* lines 188-189: end = start + chunk_size; chunk = text[start:end]
Window(t, s, size) == Slice(t, s, s + size)

\* an advance that forgets the overlap
NextStartNoOverlap(s, size, overlap) == s + size

\* lines 191-193: start += chunk_size - chunk_overlap, clamped at 0
NextStart(s, size, overlap) ==
    IF s + size - overlap < 0 THEN 0 ELSE s + size - overlap

\* a break one character early
BreakEarly(e, t) == e >= Len(t) - 1

\* a break that misses the window ending exactly at the end of the text
BreakStrict(e, t) == e > Len(t)

\* line 194: the window that reached the end of the text is the last one
BreakAfter(e, t) == e >= Len(t)

\* lines 188-195: one iteration of the loop body.  The list is recorded up to
\* ChunkCap chunks; the code's list grows without bound.
LoopBody ==
    /\ cpc = "body"
    /\ endv' = start + chunk_size
    /\ chunks' = IF Len(chunks) < ChunkCap
                 THEN Append(chunks, Window(text, start, chunk_size))
                 ELSE chunks
    /\ starts' = IF Len(starts) < ChunkCap THEN Append(starts, start) ELSE starts
    /\ start' = NextStart(start, chunk_size, chunk_overlap)
    /\ cpc' = IF BreakAfter(start + chunk_size, text) THEN "done" ELSE "test"
    /\ UNCHANGED <<text, chunk_size, chunk_overlap>>
    /\ UNCHANGED <<clock, idVars, issued, viewVars>>
    /\ UNCHANGED <<threadVars, pdfVars>>

----------------------------------------------------------------------------
(* Strings of generate_chunk_ids *)

Digits == {"0", "1", "2", "3", "4", "5", "6", "7", "8", "9"}

Letters == {"a", "b", "c", "d", "e", "f", "h", "i", "k", "l", "m", "n", "o", "p",
            "r", "s", "t", "u", "w", "x", "y", "M", "R", "T", "X"}

\* str.isalnum() of one character
IsAlnum(c) == c \in Letters \cup Digits

DigitChar(d) == <<"0", "1", "2", "3", "4", "5", "6", "7", "8", "9">>[d + 1]

RECURSIVE Dec(_)
\* str(n) of an int n >= 0, as the f-string formats it
Dec(n) == IF n < 10 THEN <<DigitChar(n)>> ELSE Dec(n \div 10) \o <<DigitChar(n % 10)>>

\* position of the last c in s, 0 when there is none
LastIndexOf(s, c) ==
    IF \E k \in 1..Len(s) : s[k] = c
    THEN CHOOSE k \in 1..Len(s) : s[k] = c /\ \A j \in (k + 1)..Len(s) : s[j] # c
    ELSE 0

RECURSIVE PathParts(_)
\* the components of a path: split at "/", without the empty and the "." ones
PathParts(f) ==
    IF f = <<>> THEN <<>>
    ELSE LET k == LastIndexOf(f, "/")
             last == SubSeq(f, k + 1, Len(f))
             rest == IF k = 0 THEN <<>> ELSE PathParts(SubSeq(f, 1, k - 1))
         IN  IF last = <<>> \/ last = <<".">> THEN rest ELSE Append(rest, last)

\* Path(f).name
PathName(f) ==
    LET parts == PathParts(f) IN IF parts = <<>> THEN <<>> ELSE parts[Len(parts)]

\* Path(f).stem: the name up to its last dot, unless that dot is the first or
\* the last character of the name
Stem(f) ==
    LET name == PathName(f)
        i == LastIndexOf(name, ".")
    IN  IF 1 < i /\ i < Len(name) THEN SubSeq(name, 1, i - 1) ELSE name

\* Path(f).suffix
Suffix(f) ==
    LET name == PathName(f)
        i == LastIndexOf(name, ".")
    IN  IF 1 < i /\ i < Len(name) THEN SubSeq(name, i, Len(name)) ELSE <<>>

\* a sanitiser that only replaces blanks
SafeCharBlanksOnly(c) == IF c = " " THEN "_" ELSE c

\* line 205: c if c.isalnum() else "_"
SafeChar(c) == IF IsAlnum(c) THEN c ELSE "_"

\* line 205: the truncation of the base name
MaxBaseLen == 50

\* lines 203-205: base_name_safe
SafeBase(f) ==
    LET stem == Stem(f)
    IN  Slice([k \in 1..Len(stem) |-> SafeChar(stem[k])], 0, MaxBaseLen)

ChunkTag == <<"_", "c", "h", "u", "n", "k", "_">>

\* an ID without the separator between base name and timestamp
ChunkIdNoSeparator(base, ts, i) == base \o Dec(ts) \o ChunkTag \o Dec(i)

\* line 206: f"{base_name_safe}_{timestamp}_chunk_{i}"
ChunkId(base, ts, i) == base \o <<"_">> \o Dec(ts) \o ChunkTag \o Dec(i)

\* a timestamp read again for every chunk
FreshTimestamp(captured, now) == now

\* line 206 interpolates the timestamp captured at line 202
IdTimestamp(captured, now) == captured

----------------------------------------------------------------------------
(* Inputs of generate_chunk_ids *)

NameChars == {"a", "1", "_", ".", "/", "!"}

ShortNames == UNION {[1..n -> NameChars] : n \in 0..MaxNameLen}

MyReportPdf == <<"M", "y", " ", "R", "e", "p", "o", "r", "t", ".", "p", "d", "f">>

WeirdNameTxt ==
    <<"w", "e", "i", "r", "d", "/", "n", "a", "m", "e", "!", ".", "t", "x", "t">>

\* names whose stem is around MaxBaseLen characters long
LongNames == {<<"!">> \o Repeat("a", n) \o <<"!", ".", "t">> : n \in 47..51}

ExampleNames ==
    { MyReportPdf, WeirdNameTxt,
      <<"a", ".", "b", ".", "c">>, <<".", "a", ".", "b">>, <<"a", "/", ".", "/">>,
      <<"a", "1", ".", "t">>, <<"a", "_", "1", ".", "t">> }

Filenames == ShortNames \cup ExampleNames \cup LongNames

\* names whose bases hold digits and underscores
PairNames ==
    { <<"a">>, <<"a", "1">>, <<"a", "_", "1">>, <<"1">>, <<"a", "!">>, <<"a", "_">> }

----------------------------------------------------------------------------
(* generate_chunk_ids, file_processing.py 199-206 *)

IdsIdle ==
    /\ filename = <<>>
    /\ num_chunks = 0
    /\ timestamp = 0
    /\ base_name_safe = <<>>
    /\ ids = <<>>
    /\ gpc = "idle"

\* the clock advances by a second
Tick ==
    /\ clock < MaxClock
    /\ clock' = clock + 1
    /\ UNCHANGED <<chunkerVars, idVars, issued, viewVars>>
    /\ UNCHANGED <<threadVars, pdfVars>>

\* lines 202-205: timestamp = int(time.time()); base_name_safe
GenEntry ==
    /\ gpc = "entry"
    /\ timestamp' = clock
    /\ base_name_safe' = SafeBase(filename)
    /\ ids' = <<>>
    /\ gpc' = "emit"
    /\ UNCHANGED <<filename, num_chunks>>
    /\ UNCHANGED <<chunkerVars, clock, issued, viewVars>>
    /\ UNCHANGED <<threadVars, pdfVars>>

\* line 206: the next element of the list comprehension
GenEmit ==
    /\ gpc = "emit"
    /\ Len(ids) < num_chunks
    /\ ids' = Append(ids, ChunkId(base_name_safe, IdTimestamp(timestamp, clock), Len(ids)))
    /\ UNCHANGED <<filename, num_chunks, timestamp, base_name_safe, gpc>>
    /\ UNCHANGED <<chunkerVars, clock, issued, viewVars>>
    /\ UNCHANGED <<threadVars, pdfVars>>

\* line 206: range(num_chunks) is exhausted, the list is returned
GenReturn ==
    /\ gpc = "emit"
    /\ Len(ids) >= num_chunks
    /\ gpc' = "done"
    /\ UNCHANGED <<filename, num_chunks, timestamp, base_name_safe, ids>>
    /\ UNCHANGED <<chunkerVars, clock, issued, viewVars>>
    /\ UNCHANGED <<threadVars, pdfVars>>

\* the IDs of a returned call, as the vector store keeps them
IssuedBy(name, base, ts, list) ==
    {[name |-> name, base |-> base, ts |-> ts, idx |-> i - 1, id |-> list[i]] :
        i \in 1..Len(list)}

\* a later call of generate_chunk_ids, at the same or a later second
GenCallAgain ==
    /\ gpc = "done"
    /\ issued' = IssuedBy(filename, base_name_safe, timestamp, ids)
    /\ \E f \in PairNames, n \in 0..MaxIds, t \in clock..MaxClock :
         /\ filename' = f
         /\ num_chunks' = n
         /\ clock' = t
    /\ gpc' = "entry"
    /\ UNCHANGED <<timestamp, base_name_safe, ids>>
    /\ UNCHANGED <<chunkerVars, viewVars>>
    /\ UNCHANGED <<threadVars, pdfVars>>

\* no call of simple_chunker in progress
ChunkerIdle ==
    /\ text = <<>>
    /\ chunk_size = 1
    /\ chunk_overlap = 0
    /\ chunks = <<>>
    /\ starts = <<>>
    /\ start = 0
    /\ endv = 0
    /\ cpc = "idle"

----------------------------------------------------------------------------
(* Values of the request handlers *)

\* a dict with string keys is a function on its keys; {} is the empty one
EmptyDict == [k \in {} |-> ""]

\* `not d` of a dict
IsEmptyDict(d) == DOMAIN d = {}

NoAddCall ==
    [called |-> FALSE, ids |-> <<>>, embeddings |-> <<>>, documents |-> <<>>,
     metadatas |-> <<>>]

NoRequest == [kind |-> "none"]

NoResponse == [status |-> 0, error |-> "none"]

IngestIdle ==
    /\ documents_data = <<>>
    /\ ingest_ids = <<>>
    /\ ingest_texts = <<>>
    /\ metadatas_prepared = <<>>

UploadIdle ==
    /\ extracted_text = <<>>
    /\ upload_chunks = <<>>
    /\ chunk_ids = <<>>
    /\ metadatas = <<>>

QueryIdle ==
    /\ top_k = 0
    /\ retrieved_documents = <<>>
    /\ gen_response = "unbound"
    /\ answer = <<>>

ViewsIdle ==
    /\ chroma_client = "None"
    /\ request = NoRequest
    /\ vpc = "idle"
    /\ response = NoResponse
    /\ IngestIdle
    /\ UploadIdle
    /\ embeddings = <<>>
    /\ addCall = NoAddCall
    /\ QueryIdle
    /\ store_up = TRUE
    /\ trace = <<>>

Threads == 1..NumThreads

\* no thread is calling get_chroma_client
ThreadsIdle ==
    /\ tpc = [t \in Threads |-> "idle"]
    /\ returned = [t \in Threads |-> "None"]
    /\ calls = [t \in Threads |-> 0]
    /\ constructed = 0

NoPdfResult == [kind |-> "none", text |-> <<>>]

\* no call of extract_text_from_pdf_with_ocr in progress
PdfIdle ==
    /\ pypdf = TRUE
    /\ ocr_libs = TRUE
    /\ pdf_pages = <<>>
    /\ pdf_text = <<>>
    /\ ocr_text = <<>>
    /\ pdf_i = 0
    /\ pdf_result = NoPdfResult
    /\ ppc = "idle"
    /\ ocr_error = FALSE

\* one call made for the request and how it ended
Event(call, result) == [call |-> call, result |-> result]

\* the characters str.strip() removes
Whitespace == {" ", "\n"}

RECURSIVE LStrip(_)
LStrip(s) == IF s # <<>> /\ Head(s) \in Whitespace THEN LStrip(Tail(s)) ELSE s

RECURSIVE RStrip(_)
RStrip(s) ==
    IF s # <<>> /\ s[Len(s)] \in Whitespace THEN RStrip(SubSeq(s, 1, Len(s) - 1)) ELSE s

\* str.strip()
Strip(s) == RStrip(LStrip(s))

\* the exceptions a call to the vector store or to the embedding service raises
ExcKinds == {"ConnectionError", "ValueError", "RuntimeError", "Exception"}

----------------------------------------------------------------------------
(* serializers.py *)

\* CharField(max_length=200) of DocumentSerializer.id
IdMaxLength == 200

\* CharField: the value is stripped (trim_whitespace) and may not be blank
CharFieldValid(raw, maxlen) ==
    /\ Strip(raw) # <<>>
    /\ (maxlen > 0 => Len(Strip(raw)) <= maxlen)

\* DictField(required=False, default={}): an absent value is the default, a
\* present one must be a dict (null is refused)
DictFieldValid(kind) == kind \in {"absent", "dict"}

DictFieldValue(kind, dict) == IF kind = "absent" THEN EmptyDict ELSE dict

\* DocumentSerializer, lines 4-7
DocumentValid(raw) ==
    /\ CharFieldValid(raw.id, IdMaxLength)
    /\ CharFieldValid(raw.text, 0)
    /\ DictFieldValid(raw.metakind)

DocumentValidated(raw) ==
    [id |-> Strip(raw.id), text |-> Strip(raw.text),
     metadata |-> DictFieldValue(raw.metakind, raw.metadata)]

\* IngestSerializer, lines 9-13: a non-empty list of valid documents
IngestValid(docs) ==
    /\ docs # <<>>
    /\ \A i \in 1..Len(docs) : DocumentValid(docs[i])

IngestValidated(docs) == [i \in 1..Len(docs) |-> DocumentValidated(docs[i])]

----------------------------------------------------------------------------
(* Inputs of IngestView *)

RawDoc(id, t, kind, dict) == [id |-> id, text |-> t, metakind |-> kind, metadata |-> dict]

RawDocs ==
    { RawDoc(<<"d">>, <<"t">>, "absent", EmptyDict),
      RawDoc(<<" ", "e">>, <<" ", "t", " ">>, "dict", EmptyDict),
      RawDoc(<<"f">>, <<"u">>, "dict", [k |-> "v"]),
      RawDoc(<<"d">>, <<"u">>, "dict", [source |-> "s"]),
      RawDoc(<<"g">>, <<" ">>, "dict", [k |-> "v"]),
      RawDoc(<<"h">>, <<"t">>, "null", EmptyDict),
      RawDoc(Repeat("i", 201), <<"t">>, "absent", EmptyDict) }

IngestPayloads == UNION {[1..n -> RawDocs] : n \in 0..MaxDocs}

----------------------------------------------------------------------------
(* utils.get_chroma_client, utils.py 12-29 *)

\* what the connection attempt of lines 18-23 does
ConnectOutcomes == {"ok", "construct_fails", "heartbeat_fails"}

\* the attempt succeeds when the store is reachable; when it is not, either
\* the constructor or the heartbeat raises
StoreConnectOutcomes(up) == {o \in ConnectOutcomes : (o = "ok") <=> up}

\* the singleton after a call: line 18 assigns it before the heartbeat of
\* line 23 is tried
ClientAfter(client, outcome) ==
    IF client # "None" THEN client
    ELSE IF outcome = "construct_fails" THEN "None" ELSE "client"

\* whether the call raises ConnectionError (line 28)
ClientRaises(client, outcome) == client = "None" /\ outcome # "ok"

ClientEvent(client, outcome) ==
    Event("client", IF ClientRaises(client, outcome) THEN "unreachable" ELSE "ok")

----------------------------------------------------------------------------
(* Calls to the vector store and to the embedding service *)

Outcome(result, exc) == [result |-> result, exc |-> exc]

\* a call on the client or on a collection: it raises when the store cannot
\* be reached, and may raise for another reason when it can
StoreCallOutcomes(up) ==
    IF up
    THEN {Outcome("ok", "none")} \cup {Outcome("raised", exc) : exc \in ExcKinds}
    ELSE {Outcome("unreachable", exc) : exc \in ExcKinds}

\* utils.embed_text_gemini, lines 74-103: the embeddings, or the exception
\* re-raised at line 103
EmbedOutcomes == {Outcome("ok", "none")} \cup {Outcome("raised", exc) : exc \in ExcKinds}

----------------------------------------------------------------------------
(* IngestView.post, views.py 33-118 *)

Respond(status, error) == [status |-> status, error |-> error]

\* the except clauses of lines 97-118
IngestErrorResponse(exc) ==
    IF exc = "ConnectionError" THEN Respond(503, "chroma_connection")
    ELSE IF exc = "ValueError" THEN Respond(400, "validation")
    ELSE Respond(500, "internal")

\* metadata kept as it is, empty or not
PreparedMetadataAsGiven(metadata) == metadata

\* lines 54-66: an empty metadata is replaced by the default
PreparedMetadata(metadata) ==
    IF IsEmptyDict(metadata) THEN [source |-> "unknown"] ELSE metadata

\* lines 34-39
IngestReceive ==
    /\ vpc = "idle"
    /\ \E docs \in IngestPayloads :
         /\ request' = [kind |-> "ingest", documents |-> docs]
         /\ IF IngestValid(docs)
            THEN /\ documents_data' = IngestValidated(docs)
                 /\ vpc' = "ingest_client"
                 /\ trace' = Append(trace, Event("validate", "ok"))
                 /\ UNCHANGED response
            ELSE /\ response' = Respond(400, "serializer")
                 /\ vpc' = "responded"
                 /\ trace' = Append(trace, Event("validate", "invalid"))
                 /\ UNCHANGED documents_data
    /\ UNCHANGED <<ingest_ids, ingest_texts, metadatas_prepared>>
    /\ UNCHANGED <<chroma_client, uploadVars, embeddings, addCall>>
    /\ UNCHANGED <<chunkerVars, clock, idVars, issued, queryVars, store_up>>
    /\ UNCHANGED <<threadVars, pdfVars>>

\* line 42
IngestGetClient ==
    /\ vpc = "ingest_client"
    /\ \E outcome \in StoreConnectOutcomes(store_up) :
         /\ chroma_client' = ClientAfter(chroma_client, outcome)
         /\ trace' = Append(trace, ClientEvent(chroma_client, outcome))
         /\ IF ClientRaises(chroma_client, outcome)
            THEN /\ response' = IngestErrorResponse("ConnectionError")
                 /\ vpc' = "responded"
            ELSE /\ vpc' = "ingest_collection"
                 /\ UNCHANGED response
    /\ UNCHANGED <<request, ingestVars, uploadVars, embeddings, addCall>>
    /\ UNCHANGED <<chunkerVars, clock, idVars, issued, queryVars, store_up>>
    /\ UNCHANGED <<threadVars, pdfVars>>

\* lines 43-45
IngestGetCollection ==
    /\ vpc = "ingest_collection"
    /\ \E out \in StoreCallOutcomes(store_up) :
         /\ trace' = Append(trace, Event("collection", out.result))
         /\ IF out.result = "ok"
            THEN /\ vpc' = "ingest_prepare"
                 /\ UNCHANGED response
            ELSE /\ response' = IngestErrorResponse(out.exc)
                 /\ vpc' = "responded"
    /\ UNCHANGED <<chroma_client, request, ingestVars, uploadVars, embeddings, addCall>>
    /\ UNCHANGED <<chunkerVars, clock, idVars, issued, queryVars, store_up>>
    /\ UNCHANGED <<threadVars, pdfVars>>

\* lines 47-75
IngestPrepare ==
    /\ vpc = "ingest_prepare"
    /\ ingest_ids' = [i \in 1..Len(documents_data) |-> documents_data[i].id]
    /\ ingest_texts' = [i \in 1..Len(documents_data) |-> documents_data[i].text]
    /\ metadatas_prepared' =
         [i \in 1..Len(documents_data) |-> PreparedMetadata(documents_data[i].metadata)]
    /\ IF documents_data = <<>>
       THEN /\ response' = Respond(200, "no_documents")
            /\ vpc' = "responded"
       ELSE /\ vpc' = "ingest_embed"
            /\ UNCHANGED response
    /\ UNCHANGED <<chroma_client, request, documents_data, uploadVars, embeddings, addCall>>
    /\ UNCHANGED <<chunkerVars, clock, idVars, issued, queryVars, store_up, trace>>
    /\ UNCHANGED <<threadVars, pdfVars>>

\* utils.embed_text_gemini on a list: one embedding per text
Embedded(texts) == [i \in 1..Len(texts) |-> "embedding"]

\* line 78
IngestEmbed ==
    /\ vpc = "ingest_embed"
    /\ \E out \in EmbedOutcomes :
         /\ trace' = Append(trace, Event("embed", out.result))
         /\ IF out.result = "ok"
            THEN /\ embeddings' = Embedded(ingest_texts)
                 /\ vpc' = "ingest_add"
                 /\ UNCHANGED response
            ELSE /\ response' = IngestErrorResponse(out.exc)
                 /\ vpc' = "responded"
                 /\ UNCHANGED embeddings
    /\ UNCHANGED <<chroma_client, request, ingestVars, uploadVars, addCall>>
    /\ UNCHANGED <<chunkerVars, clock, idVars, issued, queryVars, store_up>>
    /\ UNCHANGED <<threadVars, pdfVars>>

\* lines 84-89: collection.add is called
IngestAdd ==
    /\ vpc = "ingest_add"
    /\ addCall' = [called |-> TRUE, ids |-> ingest_ids, embeddings |-> embeddings,
                   documents |-> ingest_texts, metadatas |-> metadatas_prepared]
    /\ vpc' = "ingest_added"
    /\ UNCHANGED <<chroma_client, request, response, ingestVars, uploadVars, embeddings>>
    /\ UNCHANGED <<chunkerVars, clock, idVars, issued, queryVars, store_up, trace>>
    /\ UNCHANGED <<threadVars, pdfVars>>

\* lines 90-95 and 97-118: the call returns or raises
IngestAdded ==
    /\ vpc = "ingest_added"
    /\ \E out \in StoreCallOutcomes(store_up) :
         /\ trace' = Append(trace, Event("add", out.result))
         /\ response' = IF out.result = "ok" THEN Respond(201, "none")
                        ELSE IngestErrorResponse(out.exc)
    /\ vpc' = "responded"
    /\ UNCHANGED <<chroma_client, request, ingestVars, uploadVars, embeddings, addCall>>
    /\ UNCHANGED <<chunkerVars, clock, idVars, issued, queryVars, store_up>>
    /\ UNCHANGED <<threadVars, pdfVars>>

\* the response is sent; the handler's frame is gone
Return ==
    /\ vpc = "responded"
    /\ vpc' = "idle"
    /\ request' = NoRequest
    /\ response' = NoResponse
    /\ documents_data' = <<>>
    /\ ingest_ids' = <<>>
    /\ ingest_texts' = <<>>
    /\ metadatas_prepared' = <<>>
    /\ extracted_text' = <<>>
    /\ upload_chunks' = <<>>
    /\ chunk_ids' = <<>>
    /\ metadatas' = <<>>
    /\ embeddings' = <<>>
    /\ addCall' = NoAddCall
    /\ top_k' = 0
    /\ retrieved_documents' = <<>>
    /\ gen_response' = "unbound"
    /\ answer' = <<>>
    /\ trace' = <<>>
    /\ UNCHANGED <<chroma_client, store_up>>
    /\ UNCHANGED <<chunkerVars, clock, idVars, issued>>
    /\ UNCHANGED <<threadVars, pdfVars>>

\* the vector store becomes unreachable, or reachable again
StoreChange ==
    /\ store_up' = ~store_up
    /\ UNCHANGED <<chunkerVars, clock, idVars, issued>>
    /\ UNCHANGED <<chroma_client, request, vpc, response, ingestVars, uploadVars,
                   embeddings, addCall, queryVars, trace>>
    /\ UNCHANGED <<threadVars, pdfVars>>

----------------------------------------------------------------------------
(* file_processing.extract_text_from_file, lines 139-175 *)

\* str.lower() of one character
LowerChar(c) ==
    CASE c = "M" -> "m" [] c = "R" -> "r" [] c = "T" -> "t" [] c = "X" -> "x"
      [] OTHER -> c

Lower(s) == [k \in 1..Len(s) |-> LowerChar(s[k])]

PdfExt == <<".", "p", "d", "f">>
DocxExt == <<".", "d", "o", "c", "x">>
XlsxExt == <<".", "x", "l", "s", "x">>
TxtExt == <<".", "t", "x", "t">>

\* the texts the extractors return; every extractor strips its result
UploadTexts ==
    { <<>>, <<"a">>, SubSeq(LongText, 1, 1500), SubSeq(LongText, 1, 1501),
      SubSeq(LongText, 1, 2850), LongText }

\* (text, error) as returned for a file of the given name: a text and no
\* error, or no text and an error (unsupported type, missing library)
ExtractResults(name) ==
    LET ext == Lower(Suffix(name))
        texts == {[text |-> t, error |-> "none"] : t \in UploadTexts}
        missing == {[text |-> <<>>, error |-> "import"]}
    IN  IF ext = TxtExt THEN texts
        ELSE IF ext \in {PdfExt, DocxExt, XlsxExt} THEN texts \cup missing
        ELSE {[text |-> <<>>, error |-> "unsupported"]}

----------------------------------------------------------------------------
(* Inputs of FileUploadIngestView *)

UploadNames ==
    { <<"a", ".", "t", "x", "t">>, <<"a", ".", "T", "X", "T">>, MyReportPdf,
      <<"c", ".", "e", "x", "e">>, <<"a">>, <<"d", ".", "d", "o", "c", "x">>,
      <<"e", "_", "1", ".", "x", "l", "s", "x">> }

\* the multipart payload: a file field that validates, or one that does not
UploadPayloads ==
    {[valid |-> TRUE, name |-> n] : n \in UploadNames}
        \cup {[valid |-> FALSE, name |-> <<>>]}

----------------------------------------------------------------------------
(* FileUploadIngestView.post, views.py 275-397 *)

\* chunk_size of line 310
UploadChunkSize == 1500

\* chunk_overlap of line 310
UploadChunkOverlap == 150

\* the except clauses of lines 371-397
UploadErrorResponse(exc) ==
    IF exc = "ConnectionError" THEN Respond(503, "chroma_connection")
    ELSE IF exc = "ValueError" THEN Respond(400, "validation")
    ELSE Respond(500, "internal")

\* a metadata whose chunk_index counts from 1
UploadMetadataOneBased(name, i, n) ==
    [source |-> name, chunk_index |-> i + 1, total_chunks |-> n]

\* line 330: the metadata of chunk i of n
UploadMetadata(name, i, n) ==
    [source |-> name, chunk_index |-> i, total_chunks |-> n]

\* lines 276-282
UploadReceive ==
    /\ vpc = "idle"
    /\ \E file \in UploadPayloads :
         /\ request' = [kind |-> "upload", file |-> file]
         /\ IF file.valid
            THEN /\ vpc' = "upload_extract"
                 /\ trace' = Append(trace, Event("validate", "ok"))
                 /\ UNCHANGED response
            ELSE /\ response' = Respond(400, "serializer")
                 /\ vpc' = "responded"
                 /\ trace' = Append(trace, Event("validate", "invalid"))
    /\ UNCHANGED <<chroma_client, ingestVars, uploadVars, embeddings, addCall>>
    /\ UNCHANGED <<chunkerVars, clock, idVars, issued, queryVars, store_up>>
    /\ UNCHANGED <<threadVars, pdfVars>>

\* lines 285-310: the text is extracted; simple_chunker is called on it
UploadExtract ==
    /\ vpc = "upload_extract"
    /\ \E res \in ExtractResults(request.file.name) :
         IF res.error # "none"
         THEN /\ response' = Respond(400, res.error)
              /\ vpc' = "responded"
              /\ trace' = Append(trace, Event("extract", "error"))
              /\ UNCHANGED <<extracted_text, chunkerVars>>
         ELSE IF res.text = <<>> \/ Strip(res.text) = <<>>
         THEN /\ response' = Respond(200, "no_text")
              /\ vpc' = "responded"
              /\ extracted_text' = res.text
              /\ trace' = Append(trace, Event("extract", "no_text"))
              /\ UNCHANGED chunkerVars
         ELSE /\ extracted_text' = res.text
              /\ vpc' = "upload_chunking"
              /\ text' = res.text
              /\ chunk_size' = UploadChunkSize
              /\ chunk_overlap' = UploadChunkOverlap
              /\ cpc' = "entry"
              /\ trace' = Append(trace, Event("extract", "ok"))
              /\ UNCHANGED <<chunks, start, endv, starts, response>>
    /\ UNCHANGED <<chroma_client, request, ingestVars, upload_chunks, chunk_ids,
                   metadatas, embeddings, addCall>>
    /\ UNCHANGED <<clock, idVars, issued, queryVars, store_up>>
    /\ UNCHANGED <<threadVars, pdfVars>>

\* lines 310-326: simple_chunker has returned; generate_chunk_ids is called
UploadChunked ==
    /\ vpc = "upload_chunking"
    /\ cpc = "done"
    /\ upload_chunks' = chunks
    /\ text' = <<>> /\ chunk_size' = 1 /\ chunk_overlap' = 0 /\ chunks' = <<>>
    /\ starts' = <<>> /\ start' = 0 /\ endv' = 0 /\ cpc' = "idle"
    /\ trace' = Append(trace, Event("chunk", "ok"))
    /\ IF chunks = <<>>
       THEN /\ response' = Respond(200, "no_chunks")
            /\ vpc' = "responded"
            /\ UNCHANGED idVars
       ELSE /\ vpc' = "upload_ids"
            /\ filename' = request.file.name
            /\ num_chunks' = Len(chunks)
            /\ gpc' = "entry"
            /\ UNCHANGED <<timestamp, base_name_safe, ids, response>>
    /\ UNCHANGED <<chroma_client, request, ingestVars, extracted_text, chunk_ids,
                   metadatas, embeddings, addCall>>
    /\ UNCHANGED <<clock, issued, queryVars, store_up>>
    /\ UNCHANGED <<threadVars, pdfVars>>

\* lines 326-332: generate_chunk_ids has returned; the metadatas are built
UploadPrepared ==
    /\ vpc = "upload_ids"
    /\ gpc = "done"
    /\ chunk_ids' = ids
    /\ metadatas' = [k \in 1..Len(upload_chunks) |->
                        UploadMetadata(request.file.name, k - 1, Len(upload_chunks))]
    /\ filename' = <<>> /\ num_chunks' = 0 /\ timestamp' = 0
    /\ base_name_safe' = <<>> /\ ids' = <<>> /\ gpc' = "idle"
    /\ vpc' = "upload_embed"
    /\ UNCHANGED <<chroma_client, request, response, ingestVars, extracted_text,
                   upload_chunks, embeddings, addCall>>
    /\ UNCHANGED <<chunkerVars, clock, issued, queryVars, store_up, trace>>
    /\ UNCHANGED <<threadVars, pdfVars>>

\* a handler that goes on to the store after the embedding call, raised or not
UploadAfterEmbedIgnoringFailure(out) == "upload_client"

\* lines 340 and 371-397: an exception of the embedding call leaves the try
\* block, so the statements of lines 344-369 are not run
UploadAfterEmbed(out) ==
    IF out.result = "ok" THEN "upload_client" ELSE "responded"

\* line 340
UploadEmbed ==
    /\ vpc = "upload_embed"
    /\ \E out \in EmbedOutcomes :
         /\ trace' = Append(trace, Event("embed", out.result))
         /\ vpc' = UploadAfterEmbed(out)
         /\ IF out.result = "ok"
            THEN /\ embeddings' = Embedded(upload_chunks)
                 /\ UNCHANGED response
            ELSE /\ response' = UploadErrorResponse(out.exc)
                 /\ UNCHANGED embeddings
    /\ UNCHANGED <<chroma_client, request, ingestVars, uploadVars, addCall>>
    /\ UNCHANGED <<chunkerVars, clock, idVars, issued, queryVars, store_up>>
    /\ UNCHANGED <<threadVars, pdfVars>>

\* line 344
UploadGetClient ==
    /\ vpc = "upload_client"
    /\ \E outcome \in StoreConnectOutcomes(store_up) :
         /\ chroma_client' = ClientAfter(chroma_client, outcome)
         /\ trace' = Append(trace, ClientEvent(chroma_client, outcome))
         /\ IF ClientRaises(chroma_client, outcome)
            THEN /\ response' = UploadErrorResponse("ConnectionError")
                 /\ vpc' = "responded"
            ELSE /\ vpc' = "upload_collection"
                 /\ UNCHANGED response
    /\ UNCHANGED <<request, ingestVars, uploadVars, embeddings, addCall>>
    /\ UNCHANGED <<chunkerVars, clock, idVars, issued, queryVars, store_up>>
    /\ UNCHANGED <<threadVars, pdfVars>>

\* lines 345-347
UploadGetCollection ==
    /\ vpc = "upload_collection"
    /\ \E out \in StoreCallOutcomes(store_up) :
         /\ trace' = Append(trace, Event("collection", out.result))
         /\ IF out.result = "ok"
            THEN /\ vpc' = "upload_add"
                 /\ UNCHANGED response
            ELSE /\ response' = UploadErrorResponse(out.exc)
                 /\ vpc' = "responded"
    /\ UNCHANGED <<chroma_client, request, ingestVars, uploadVars, embeddings, addCall>>
    /\ UNCHANGED <<chunkerVars, clock, idVars, issued, queryVars, store_up>>
    /\ UNCHANGED <<threadVars, pdfVars>>

\* lines 352-357: collection.add is called
UploadAdd ==
    /\ vpc = "upload_add"
    /\ addCall' = [called |-> TRUE, ids |-> chunk_ids, embeddings |-> embeddings,
                   documents |-> upload_chunks, metadatas |-> metadatas]
    /\ vpc' = "upload_added"
    /\ UNCHANGED <<chroma_client, request, response, ingestVars, uploadVars, embeddings>>
    /\ UNCHANGED <<chunkerVars, clock, idVars, issued, queryVars, store_up, trace>>
    /\ UNCHANGED <<threadVars, pdfVars>>

\* lines 358-369 and 371-397: the call returns or raises
UploadAdded ==
    /\ vpc = "upload_added"
    /\ \E out \in StoreCallOutcomes(store_up) :
         /\ trace' = Append(trace, Event("add", out.result))
         /\ response' = IF out.result = "ok" THEN Respond(201, "none")
                        ELSE UploadErrorResponse(out.exc)
    /\ vpc' = "responded"
    /\ UNCHANGED <<chroma_client, request, ingestVars, uploadVars, embeddings, addCall>>
    /\ UNCHANGED <<chunkerVars, clock, idVars, issued, queryVars, store_up>>
    /\ UNCHANGED <<threadVars, pdfVars>>

----------------------------------------------------------------------------
(* QuerySerializer, serializers.py 15-17, and the inputs of RagQueryView *)

\* max_length of query
QueryMaxLength == 1000

\* min_value, max_value and default of top_k
TopKMin == 1
TopKMax == 10
TopKDefault == 3

QueryValid(data) ==
    /\ CharFieldValid(data.query, QueryMaxLength)
    /\ data.has_top_k => (TopKMin <= data.top_k /\ data.top_k <= TopKMax)

ValidatedTopK(data) == IF data.has_top_k THEN data.top_k ELSE TopKDefault

QueryPayload(q, has, k) == [query |-> q, has_top_k |-> has, top_k |-> k]

QueryPayloads ==
    { QueryPayload(<<"q">>, FALSE, 0), QueryPayload(<<"q">>, TRUE, 1),
      QueryPayload(<<"q">>, TRUE, 10), QueryPayload(<<"q">>, TRUE, 0),
      QueryPayload(<<"q">>, TRUE, 11), QueryPayload(<<" ">>, FALSE, 0),
      QueryPayload(Repeat("q", QueryMaxLength + 1), FALSE, 0) }

\* what collection.query can return for n_results = k: at most k documents
RetrievedDocuments(k) ==
    {docs \in {<<>>, << <<"a">> >>, << <<"a">>, <<"b">> >>} : Len(docs) <= k}

\* what line 217 binds to the local `response`, when generate_content returns
GeneratedResponses == {"text", "empty_text", "blocked", "blocked_with_feedback"}

\* response.text of line 218 raises for a response without text parts
TextRaises(r) == r \in {"blocked", "blocked_with_feedback"}

ResponseText(r) == IF r = "text" THEN <<"a">> ELSE <<>>

\* RagResponseSerializer, serializers.py 19-23: answer must not be blank
RagResponseValid(a) == Strip(a) # <<>>

----------------------------------------------------------------------------
(* RagQueryView.post, views.py 138-263 *)

\* the except clauses of lines 246-263
QueryErrorResponse(exc) ==
    IF exc = "ConnectionError" THEN Respond(503, "chroma_connection")
    ELSE IF exc = "RuntimeError" THEN Respond(500, "configuration")
    ELSE Respond(500, "unexpected")

\* lines 139-145
QueryReceive ==
    /\ vpc = "idle"
    /\ \E data \in QueryPayloads :
         /\ request' = [kind |-> "query", data |-> data]
         /\ IF QueryValid(data)
            THEN /\ top_k' = ValidatedTopK(data)
                 /\ vpc' = "query_client"
                 /\ trace' = Append(trace, Event("validate", "ok"))
                 /\ UNCHANGED response
            ELSE /\ response' = Respond(400, "serializer")
                 /\ vpc' = "responded"
                 /\ trace' = Append(trace, Event("validate", "invalid"))
                 /\ UNCHANGED top_k
    /\ UNCHANGED <<retrieved_documents, gen_response, answer>>
    /\ UNCHANGED <<chroma_client, ingestVars, uploadVars, embeddings, addCall>>
    /\ UNCHANGED <<chunkerVars, clock, idVars, issued, store_up>>
    /\ UNCHANGED <<threadVars, pdfVars>>

\* line 149
QueryGetClient ==
    /\ vpc = "query_client"
    /\ \E outcome \in StoreConnectOutcomes(store_up) :
         /\ chroma_client' = ClientAfter(chroma_client, outcome)
         /\ trace' = Append(trace, ClientEvent(chroma_client, outcome))
         /\ IF ClientRaises(chroma_client, outcome)
            THEN /\ response' = QueryErrorResponse("ConnectionError")
                 /\ vpc' = "responded"
            ELSE /\ vpc' = "query_collection"
                 /\ UNCHANGED response
    /\ UNCHANGED <<request, ingestVars, uploadVars, embeddings, addCall, queryVars>>
    /\ UNCHANGED <<chunkerVars, clock, idVars, issued, store_up>>
    /\ UNCHANGED <<threadVars, pdfVars>>

\* lines 150-163: whatever get_collection raises is answered with 404
QueryGetCollection ==
    /\ vpc = "query_collection"
    /\ \E out \in StoreCallOutcomes(store_up) :
         /\ trace' = Append(trace, Event("collection", out.result))
         /\ IF out.result = "ok"
            THEN /\ vpc' = "query_embed"
                 /\ UNCHANGED response
            ELSE /\ response' = Respond(404, "collection_not_found")
                 /\ vpc' = "responded"
    /\ UNCHANGED <<chroma_client, request, ingestVars, uploadVars, embeddings,
                   addCall, queryVars>>
    /\ UNCHANGED <<chunkerVars, clock, idVars, issued, store_up>>
    /\ UNCHANGED <<threadVars, pdfVars>>

\* line 168
QueryEmbed ==
    /\ vpc = "query_embed"
    /\ \E out \in EmbedOutcomes :
         /\ trace' = Append(trace, Event("embed", out.result))
         /\ IF out.result = "ok"
            THEN /\ embeddings' = <<"embedding">>
                 /\ vpc' = "query_search"
                 /\ UNCHANGED response
            ELSE /\ response' = QueryErrorResponse(out.exc)
                 /\ vpc' = "responded"
                 /\ UNCHANGED embeddings
    /\ UNCHANGED <<chroma_client, request, ingestVars, uploadVars, addCall, queryVars>>
    /\ UNCHANGED <<chunkerVars, clock, idVars, issued, store_up>>
    /\ UNCHANGED <<threadVars, pdfVars>>

\* lines 173-199
QuerySearch ==
    /\ vpc = "query_search"
    /\ \E out \in StoreCallOutcomes(store_up) :
         /\ trace' = Append(trace, Event("search", out.result))
         /\ IF out.result = "ok"
            THEN /\ \E docs \in RetrievedDocuments(top_k) :
                      retrieved_documents' = docs
                 /\ vpc' = "query_model"
                 /\ UNCHANGED response
            ELSE /\ response' = QueryErrorResponse(out.exc)
                 /\ vpc' = "responded"
                 /\ UNCHANGED retrieved_documents
    /\ UNCHANGED <<top_k, gen_response, answer>>
    /\ UNCHANGED <<chroma_client, request, ingestVars, uploadVars, embeddings, addCall>>
    /\ UNCHANGED <<chunkerVars, clock, idVars, issued, store_up>>
    /\ UNCHANGED <<threadVars, pdfVars>>

\* line 215: utils.get_gemini_model returns the model, or raises RuntimeError
\* (utils.py 61-62)
QueryGetModel ==
    /\ vpc = "query_model"
    /\ \E ok \in BOOLEAN :
         /\ trace' = Append(trace, Event("model", IF ok THEN "ok" ELSE "raised"))
         /\ IF ok
            THEN /\ vpc' = "query_generate"
                 /\ UNCHANGED response
            ELSE /\ response' = QueryErrorResponse("RuntimeError")
                 /\ vpc' = "responded"
    /\ UNCHANGED <<chroma_client, request, ingestVars, uploadVars, embeddings,
                   addCall, queryVars>>
    /\ UNCHANGED <<chunkerVars, clock, idVars, issued, store_up>>
    /\ UNCHANGED <<threadVars, pdfVars>>

\* line 217: generate_content returns and `response` is bound, or it raises
\* and `response` is left unbound
QueryGenerate ==
    /\ vpc = "query_generate"
    /\ \/ \E r \in GeneratedResponses :
            /\ gen_response' = r
            /\ vpc' = "query_text"
            /\ trace' = Append(trace, Event("generate", "ok"))
       \/ /\ vpc' = "query_gen_failed"
          /\ trace' = Append(trace, Event("generate", "raised"))
          /\ UNCHANGED gen_response
    /\ UNCHANGED <<top_k, retrieved_documents, answer>>
    /\ UNCHANGED <<chroma_client, request, response, ingestVars, uploadVars,
                   embeddings, addCall>>
    /\ UNCHANGED <<chunkerVars, clock, idVars, issued, store_up>>
    /\ UNCHANGED <<threadVars, pdfVars>>

\* line 218
QueryReadText ==
    /\ vpc = "query_text"
    /\ IF TextRaises(gen_response)
       THEN /\ vpc' = "query_gen_failed"
            /\ trace' = Append(trace, Event("text", "raised"))
            /\ UNCHANGED answer
       ELSE /\ answer' = ResponseText(gen_response)
            /\ vpc' = "query_respond"
            /\ trace' = Append(trace, Event("text", "ok"))
    /\ UNCHANGED <<top_k, retrieved_documents, gen_response>>
    /\ UNCHANGED <<chroma_client, request, response, ingestVars, uploadVars,
                   embeddings, addCall>>
    /\ UNCHANGED <<chunkerVars, clock, idVars, issued, store_up>>
    /\ UNCHANGED <<threadVars, pdfVars>>

\* lines 220-232: line 225 reads the local `response`; when line 217 raised
\* it is unbound and the read raises UnboundLocalError, which the clause of
\* line 258 answers
QueryGenFailed ==
    /\ vpc = "query_gen_failed"
    /\ response' =
         IF gen_response = "unbound" THEN QueryErrorResponse("Exception")
         ELSE IF gen_response = "blocked_with_feedback"
         THEN Respond(500, "generation_with_feedback")
         ELSE Respond(500, "generation")
    /\ vpc' = "responded"
    /\ UNCHANGED <<chroma_client, request, ingestVars, uploadVars, embeddings,
                   addCall, queryVars>>
    /\ UNCHANGED <<chunkerVars, clock, idVars, issued, store_up, trace>>
    /\ UNCHANGED <<threadVars, pdfVars>>

\* lines 235-244: the response is validated; a ValidationError is answered by
\* the clause of line 258
QueryRespond ==
    /\ vpc = "query_respond"
    /\ response' = IF RagResponseValid(answer) THEN Respond(200, "none")
                   ELSE QueryErrorResponse("Exception")
    /\ vpc' = "responded"
    /\ UNCHANGED <<chroma_client, request, ingestVars, uploadVars, embeddings,
                   addCall, queryVars>>
    /\ UNCHANGED <<chunkerVars, clock, idVars, issued, store_up, trace>>
    /\ UNCHANGED <<threadVars, pdfVars>>

----------------------------------------------------------------------------
(* The service: requests handled one after the other *)

Init ==
    /\ ChunkerIdle
    /\ clock = 0
    /\ IdsIdle
    /\ issued = {}
    /\ ViewsIdle
    /\ ThreadsIdle
    /\ PdfIdle

Next ==
    \/ IngestReceive \/ IngestGetClient \/ IngestGetCollection \/ IngestPrepare
    \/ IngestEmbed \/ IngestAdd \/ IngestAdded
    \/ UploadReceive \/ UploadExtract \/ UploadChunked \/ UploadPrepared
    \/ UploadEmbed \/ UploadGetClient \/ UploadGetCollection \/ UploadAdd
    \/ UploadAdded
    \/ QueryReceive \/ QueryGetClient \/ QueryGetCollection \/ QueryEmbed
    \/ QuerySearch \/ QueryGetModel \/ QueryGenerate \/ QueryReadText
    \/ QueryGenFailed \/ QueryRespond
    \/ ChunkerEntry \/ LoopTest \/ LoopBody
    \/ GenEntry \/ GenEmit \/ GenReturn \/ Tick
    \/ Return \/ StoreChange

Spec == Init /\ [][Next]_vars

----------------------------------------------------------------------------
(* Properties of generate_chunk_ids *)

StartsWith(s, prefix) ==
    Len(prefix) <= Len(s) /\ SubSeq(s, 1, Len(prefix)) = prefix

EndsWith(s, suffix) ==
    Len(suffix) <= Len(s) /\ SubSeq(s, Len(s) - Len(suffix) + 1, Len(s)) = suffix

\* what follows the base name in the ID of chunk i
IdTail(ts, i) == <<"_">> \o Dec(ts) \o ChunkTag \o Dec(i)

\* the base-name segment of the ID of chunk i
BaseSegment(id, ts, i) == SubSeq(id, 1, Len(id) - Len(IdTail(ts, i)))

\* C6: generate_chunk_ids(filename, n) returns n strings in order, the i-th
\* "{base}_{timestamp}_chunk_{i}", i = 0..n-1, with base the sanitised stem and
\* the timestamp the one reading of the clock made at the start of the call,
\* whatever the clock does during the call.  "My Report.pdf", 3: each ID starts
\* with My_Report_ and they end with _chunk_0, _chunk_1, _chunk_2.
C6_IdFormat ==
    (gpc \in {"emit", "done"}) =>
        /\ Len(ids) <= num_chunks
        /\ timestamp <= clock
        /\ (gpc = "done") => Len(ids) = num_chunks
        /\ \A i \in 0..(Len(ids) - 1) :
              ids[i + 1] = SafeBase(filename) \o <<"_">> \o Dec(timestamp)
                              \o <<"_", "c", "h", "u", "n", "k", "_">> \o Dec(i)
        /\ (gpc = "done" /\ filename = MyReportPdf /\ num_chunks = 3) =>
              \A i \in 0..2 :
                  /\ StartsWith(ids[i + 1],
                                <<"M", "y", "_", "R", "e", "p", "o", "r", "t", "_">>
                                    \o Dec(timestamp) \o <<"_">>)
                  /\ EndsWith(ids[i + 1], <<"_", "c", "h", "u", "n", "k", "_", DigitChar(i)>>)

C6_Witness ==
    /\ gpc = "done" /\ filename = MyReportPdf /\ num_chunks = 3 /\ Len(ids) = 3
    /\ timestamp >= 10 /\ clock > timestamp
    /\ EndsWith(ids[3], <<"_", "c", "h", "u", "n", "k", "_", "2">>)

\* C7: the IDs of one call are pairwise distinct, and an ID of one call equals
\* an ID of another call only if base name, timestamp and chunk index all
\* coincide, base names with underscores and digits included.
C7_IdsInjective ==
    /\ \A i, j \in 1..Len(ids) : ids[i] = ids[j] => i = j
    /\ \A r \in issued : \A i \in 1..Len(ids) :
          (gpc \in {"emit", "done"} /\ r.id = ids[i]) =>
              /\ r.base = base_name_safe
              /\ r.ts = timestamp
              /\ r.idx = i - 1

C7_Witness ==
    /\ gpc = "done"
    /\ \E r \in issued : \E i \in 1..Len(ids) :
          /\ r.id = ids[i]
          /\ r.name # filename
          /\ \E k \in 1..Len(r.base) : r.base[k] = "_"

\* C8: the base-name segment of every generated ID holds only alphanumeric
\* characters and underscores, one underscore for each non-alphanumeric
\* character of the stem, and is at most 50 characters long; no "/" and no "!"
\* is in the ID.
C8_Sanitised ==
    (gpc \in {"emit", "done"}) =>
        \A i \in 0..(Len(ids) - 1) :
            LET stem == Stem(filename)
                base == BaseSegment(ids[i + 1], timestamp, i)
            IN  /\ EndsWith(ids[i + 1], IdTail(timestamp, i))
                /\ Len(base) = Min(Len(stem), 50)
                /\ \A k \in 1..Len(base) :
                      /\ base[k] \in Letters \cup Digits \cup {"_"}
                      /\ base[k] = (IF stem[k] \in Letters \cup Digits THEN stem[k] ELSE "_")
                /\ \A k \in 1..Len(ids[i + 1]) : ids[i + 1][k] \notin {"/", "!"}

C8_Witness ==
    /\ gpc = "done" /\ Len(ids) >= 1
    /\ Len(Stem(filename)) > 50
    /\ Stem(filename)[1] = "!"
    /\ Len(BaseSegment(ids[1], timestamp, 0)) = 50
    /\ BaseSegment(ids[1], timestamp, 0)[1] = "_"

----------------------------------------------------------------------------
(* generate_chunk_ids on its own *)

\* one call of generate_chunk_ids, the clock running
InitIds ==
    /\ ChunkerIdle
    /\ ViewsIdle
    /\ clock \in 0..MaxClock
    /\ filename \in Filenames
    /\ num_chunks \in 0..MaxIds
    /\ timestamp = 0
    /\ base_name_safe = <<>>
    /\ ids = <<>>
    /\ gpc = "entry"
    /\ issued = {}
    /\ ThreadsIdle
    /\ PdfIdle

NextIds == Tick \/ GenEntry \/ GenEmit \/ GenReturn

SpecIds == InitIds /\ [][NextIds]_vars

\* calls of generate_chunk_ids one after the other
InitIdPairs ==
    /\ ChunkerIdle
    /\ ViewsIdle
    /\ clock \in 0..MaxClock
    /\ filename \in PairNames
    /\ num_chunks \in 0..MaxIds
    /\ timestamp = 0
    /\ base_name_safe = <<>>
    /\ ids = <<>>
    /\ gpc = "entry"
    /\ issued = {}
    /\ ThreadsIdle
    /\ PdfIdle

NextIdPairs == GenEntry \/ GenEmit \/ GenReturn \/ GenCallAgain

SpecIdPairs == InitIdPairs /\ [][NextIdPairs]_vars

----------------------------------------------------------------------------
(* simple_chunker on its own: the call's arguments are drawn from          *)
(* ChunkerInputs.                                                           *)

InitChunker ==
    /\ \E inp \in ChunkerInputs :
         /\ text = inp[1]
         /\ chunk_size = inp[2]
         /\ chunk_overlap = inp[3]
    /\ chunks = <<>>
    /\ starts = <<>>
    /\ start = 0
    /\ endv = 0
    /\ cpc = "entry"
    /\ clock = 0
    /\ IdsIdle
    /\ issued = {}
    /\ ViewsIdle
    /\ ThreadsIdle
    /\ PdfIdle

NextChunker == ChunkerEntry \/ LoopTest \/ LoopBody

SpecChunker == InitChunker /\ [][NextChunker]_vars

\* the interpreter keeps executing a call that has not returned
FairChunker == SpecChunker /\ WF_vars(NextChunker)

----------------------------------------------------------------------------
(* Properties of simple_chunker *)

Returned == cpc = "done"

\* 0 <= chunk_overlap < chunk_size
ValidConfig == 0 <= chunk_overlap /\ chunk_overlap < chunk_size

\* chunk i (0-based) from its chunk_overlap'th character, chunk 0 whole
Deoverlapped ==
    [i \in 1..Len(chunks) |->
        IF i = 1 THEN chunks[i] ELSE Slice(chunks[i], chunk_overlap, Len(chunks[i]))]

\* the least k with k*s + chunk_size >= L, for a step s >= 1
LastWindow(L, size, s) ==
    CHOOSE k \in 0..L : /\ k * s + size >= L
                        /\ \A j \in 0..(k - 1) : j * s + size < L

\* C1: every call of simple_chunker returns, whatever the text, the positive
\* chunk_size and the non-negative chunk_overlap, the configurations with
\* chunk_overlap >= chunk_size and a text longer than chunk_size included.
C1_ChunkerTerminates == <>(cpc = "done")

\* C2: for a non-empty text and 0 <= chunk_overlap < chunk_size, chunk 0
\* followed by every later chunk from its chunk_overlap'th character on is the
\* input text.
C2_RoundTrip ==
    (Returned /\ text # <<>> /\ ValidConfig) => Concat(Deoverlapped) = text

C2_Witness ==
    /\ Returned /\ ValidConfig /\ chunk_overlap >= 1 /\ Len(chunks) >= 3
    /\ Len(chunks[Len(chunks)]) < chunk_size
    /\ Concat(Deoverlapped) = text

\* C3: for a non-empty text and 0 <= chunk_overlap < chunk_size, every
\* character index lies in an emitted chunk, the last chunk ends at the end of
\* the text, and no chunk is empty or starts at or beyond the end.
C3_Coverage ==
    (Returned /\ text # <<>> /\ ValidConfig) =>
        /\ Len(chunks) >= 1
        /\ Len(starts) = Len(chunks)
        /\ \A k \in 1..Len(chunks) :
              /\ chunks[k] # <<>>
              /\ 0 <= starts[k] /\ starts[k] < Len(text)
              /\ chunks[k] = SubSeq(text, starts[k] + 1, starts[k] + Len(chunks[k]))
        /\ \A idx \in 0..(Len(text) - 1) :
              \E k \in 1..Len(chunks) :
                  starts[k] <= idx /\ idx < starts[k] + Len(chunks[k])
        /\ starts[Len(chunks)] + Len(chunks[Len(chunks)]) = Len(text)

C3_Witness ==
    /\ Returned /\ ValidConfig /\ Len(chunks) >= 2
    /\ starts[Len(chunks)] + Len(chunks[Len(chunks)]) = Len(text)
    /\ Len(chunks[Len(chunks)]) < chunk_size

\* C4: the empty text gives the empty list; a non-empty text no longer than
\* chunk_size gives the one chunk that is the whole text, for every
\* chunk_overlap >= 0, and the loop body is not entered a second time.
C4_Boundary ==
    /\ (Returned /\ text = <<>>) => chunks = <<>>
    /\ (Returned /\ text # <<>> /\ Len(text) <= chunk_size) => chunks = <<text>>
    /\ (Len(text) <= chunk_size /\ cpc \in {"test", "body"}) => chunks = <<>>

C4_Witness ==
    /\ Returned /\ text # <<>> /\ Len(text) = chunk_size
    /\ chunk_overlap >= chunk_size
    /\ chunks = <<text>>

\* C5: for 0 <= chunk_overlap < chunk_size and a non-empty text of length L the
\* output is the windows text[k*s : min(k*s + chunk_size, L)], k = 0..n, in
\* order, with s = chunk_size - chunk_overlap and n the least k such that
\* k*s + chunk_size >= L: the window that reaches L is emitted once and is the
\* last.  L = 3200, size 1500, overlap 150: offsets 0, 1350, 2700, last chunk
\* of length 500.
C5_Windows ==
    (Returned /\ text # <<>> /\ ValidConfig) =>
        LET L == Len(text)
            s == chunk_size - chunk_overlap
            n == LastWindow(L, chunk_size, s)
        IN  /\ Len(chunks) = n + 1
            /\ starts = [k \in 1..(n + 1) |-> (k - 1) * s]
            /\ \A k \in 0..n :
                  chunks[k + 1] = SubSeq(text, k * s + 1, Min(k * s + chunk_size, L))
            /\ (L = 3200 /\ chunk_size = 1500 /\ chunk_overlap = 150) =>
                  /\ starts = <<0, 1350, 2700>>
                  /\ Len(chunks[3]) = 500

C5_Witness ==
    /\ Returned /\ text = LongText /\ chunk_size = 1500 /\ chunk_overlap = 150
    /\ starts = <<0, 1350, 2700>>
    /\ chunks[3] = SubSeq(text, 2701, 3200)

\* every returning call of the model stays below the recording cap
CapNotReached == Returned => Len(chunks) < ChunkCap

----------------------------------------------------------------------------
(* Properties of the calls to collection.add *)

\* the i-th (1-based) document of the ingest request, as received
RawDocument(i) == request.documents[i]

\* C9: every metadata passed to collection.add by IngestView or
\* FileUploadIngestView is a non-empty mapping; a document whose metadata is
\* absent or empty is added with {"source": "unknown"}, one with a non-empty
\* metadata with that metadata unchanged.
C9_MetadataNonEmpty ==
    addCall.called =>
        /\ \A i \in 1..Len(addCall.metadatas) : DOMAIN addCall.metadatas[i] # {}
        /\ (request.kind = "ingest") =>
              /\ Len(addCall.metadatas) = Len(request.documents)
              /\ \A i \in 1..Len(request.documents) :
                    addCall.metadatas[i] =
                        (IF RawDocument(i).metakind = "absent"
                              \/ DOMAIN RawDocument(i).metadata = {}
                         THEN [source |-> "unknown"]
                         ELSE RawDocument(i).metadata)

C9_Witness ==
    /\ addCall.called /\ request.kind = "ingest"
    /\ \E i, j \in 1..Len(request.documents) :
          /\ RawDocument(i).metakind = "dict" /\ DOMAIN RawDocument(i).metadata = {}
          /\ addCall.metadatas[i] = [source |-> "unknown"]
          /\ DOMAIN RawDocument(j).metadata = {"k"}
          /\ addCall.metadatas[j] = [k |-> "v"]

\* C10: in every call to collection.add the ids, documents and metadatas have
\* the same length and are index-aligned: for IngestView position i of each
\* comes from the i-th document of the request; for FileUploadIngestView
\* ids[i] ends with _chunk_i, documents[i] is the i-th chunk of the extracted
\* text and metadatas[i] has chunk_index i and total_chunks the number of
\* chunks.
C10_Aligned ==
    addCall.called =>
        /\ Len(addCall.ids) = Len(addCall.documents)
        /\ Len(addCall.metadatas) = Len(addCall.documents)
        /\ (request.kind = "ingest") =>
              /\ Len(addCall.documents) = Len(request.documents)
              /\ \A i \in 1..Len(request.documents) :
                    /\ addCall.ids[i] = Strip(RawDocument(i).id)
                    /\ addCall.documents[i] = Strip(RawDocument(i).text)
                    /\ addCall.metadatas[i] \in
                          {RawDocument(i).metadata, [source |-> "unknown"]}
        /\ (request.kind = "upload") =>
              LET L == Len(extracted_text)
                  n == Len(addCall.documents)
              IN  /\ n = LastWindow(L, 1500, 1350) + 1
                  /\ \A i \in 0..(n - 1) :
                        /\ EndsWith(addCall.ids[i + 1],
                                    <<"_", "c", "h", "u", "n", "k", "_">> \o Dec(i))
                        /\ addCall.documents[i + 1] =
                              SubSeq(extracted_text, i * 1350 + 1, Min(i * 1350 + 1500, L))
                        /\ addCall.metadatas[i + 1].chunk_index = i
                        /\ addCall.metadatas[i + 1].total_chunks = n
                        /\ addCall.metadatas[i + 1].source = request.file.name

C10_Witness ==
    /\ addCall.called /\ request.kind = "upload"
    /\ Len(addCall.documents) = 3
    /\ EndsWith(addCall.ids[3], <<"_", "c", "h", "u", "n", "k", "_", "2">>)
    /\ addCall.documents[3] = SubSeq(extracted_text, 2701, 3200)
    /\ addCall.metadatas[3].chunk_index = 2

----------------------------------------------------------------------------
(* Properties of the request handlers *)

InTrace(e) == \E k \in DOMAIN trace : trace[k] = e

\* some call of the request found the vector store unreachable
StoreFoundUnreachable == \E k \in DOMAIN trace : trace[k].result = "unreachable"

\* C11: on every endpoint and in any sequence of requests, a request during
\* which the vector store was found unreachable is answered with the
\* upstream-connection error response, status 503, and with nothing else.
C11_UnreachableIs503 ==
    (vpc = "responded" /\ StoreFoundUnreachable)
        => response = Respond(503, "chroma_connection")

\* the position of a step in the order extraction, chunking, embedding,
\* insertion of an upload request
StepRank(call) ==
    CASE call = "validate" -> 0
      [] call = "extract" -> 1
      [] call = "chunk" -> 2
      [] call = "embed" -> 3
      [] call = "client" -> 4
      [] call = "collection" -> 5
      [] call = "add" -> 6

EmbedOrStoreCalls == {"embed", "client", "collection", "add"}

\* C13: in an upload request the steps happen in the order extraction,
\* chunking, embedding, insertion; a step is only made after every earlier
\* step succeeded; collection.add is only called after validation,
\* extraction, chunking, embedding and the two store calls succeeded; a
\* request answered with 400 for its payload or its file, or with the
\* no-text 200, has made no embedding call and no store call; and a request
\* whose embedding call raised has not called collection.add.
C13_UploadOrder ==
    request.kind = "upload" =>
        /\ \A i, j \in DOMAIN trace :
             i < j => StepRank(trace[i].call) < StepRank(trace[j].call)
        /\ \A i \in DOMAIN trace : i < Len(trace) => trace[i].result = "ok"
        /\ addCall.called =>
             /\ Len(trace) >= 6
             /\ \A i \in 1..6 : StepRank(trace[i].call) = i - 1 /\ trace[i].result = "ok"
        /\ response \in {Respond(400, "serializer"), Respond(400, "unsupported"),
                         Respond(400, "import"), Respond(200, "no_text")}
             => /\ \A i \in DOMAIN trace : trace[i].call \notin EmbedOrStoreCalls
                /\ ~addCall.called
        /\ InTrace(Event("embed", "raised"))
             => /\ ~addCall.called
                /\ \A i \in DOMAIN trace : trace[i].call # "add"

\* an upload that went through every step and was stored
C13_Witness ==
    /\ request.kind = "upload"
    /\ vpc = "responded"
    /\ response = Respond(201, "none")
    /\ Len(trace) = 7
    /\ trace[2] = Event("extract", "ok") /\ trace[4] = Event("embed", "ok")
    /\ trace[7] = Event("add", "ok")

\* the generative-model step of the request failed
GenerationFailed ==
    InTrace(Event("generate", "raised")) \/ InTrace(Event("text", "raised"))

\* C15: a query request whose generative-model step failed, at
\* generate_content or at reading the text, ends with the 500
\* generation-failure response, with the prompt feedback when there is one.
C15_GenerationFailureMessage ==
    (request.kind = "query" /\ vpc = "responded" /\ GenerationFailed)
        => /\ response \in {Respond(500, "generation"),
                            Respond(500, "generation_with_feedback")}
           /\ gen_response = "blocked_with_feedback"
                => response = Respond(500, "generation_with_feedback")

\* C16: after a call to get_chroma_client that raised ConnectionError the
\* singleton is unset.
C16_UnsetAfterRaise ==
    InTrace(Event("client", "unreachable")) => chroma_client = "None"

----------------------------------------------------------------------------
(* utils.get_chroma_client called from several threads, utils.py 10-29.    *)
(* Construction and heartbeat succeed in every call.  A thread can be      *)
(* suspended between any two of the lines 15, 18, 23 and 29.               *)

\* the k-th object chromadb.HttpClient(...) returns
Instance(k) == IF k = 1 THEN "client" ELSE "client_" \o ToString(k)

\* a thread enters get_chroma_client
ClientCall(t) ==
    /\ tpc[t] = "idle"
    /\ calls[t] < MaxCalls
    /\ calls' = [calls EXCEPT ![t] = @ + 1]
    /\ tpc' = [tpc EXCEPT ![t] = "check"]
    /\ UNCHANGED <<chroma_client, returned, constructed>>
    /\ UNCHANGED <<chunkerVars, clock, idVars, issued, handlerVars, pdfVars>>

\* line 15: if _chroma_client is None
ClientCheck(t) ==
    /\ tpc[t] = "check"
    /\ tpc' = [tpc EXCEPT ![t] = IF chroma_client = "None" THEN "construct"
                                 ELSE "return"]
    /\ UNCHANGED <<chroma_client, returned, calls, constructed>>
    /\ UNCHANGED <<chunkerVars, clock, idVars, issued, handlerVars, pdfVars>>

\* line 18: a client is constructed and assigned to the global
ClientConstruct(t) ==
    /\ tpc[t] = "construct"
    /\ constructed' = constructed + 1
    /\ chroma_client' = Instance(constructed + 1)
    /\ tpc' = [tpc EXCEPT ![t] = "heartbeat"]
    /\ UNCHANGED <<returned, calls>>
    /\ UNCHANGED <<chunkerVars, clock, idVars, issued, handlerVars, pdfVars>>

\* line 23: the heartbeat of the global succeeds
ClientHeartbeat(t) ==
    /\ tpc[t] = "heartbeat"
    /\ tpc' = [tpc EXCEPT ![t] = "return"]
    /\ UNCHANGED <<chroma_client, returned, calls, constructed>>
    /\ UNCHANGED <<chunkerVars, clock, idVars, issued, handlerVars, pdfVars>>

\* line 29: return _chroma_client
ClientReturn(t) ==
    /\ tpc[t] = "return"
    /\ returned' = [returned EXCEPT ![t] = chroma_client]
    /\ tpc' = [tpc EXCEPT ![t] = "idle"]
    /\ UNCHANGED <<chroma_client, calls, constructed>>
    /\ UNCHANGED <<chunkerVars, clock, idVars, issued, handlerVars, pdfVars>>

InitClient ==
    /\ ChunkerIdle
    /\ clock = 0
    /\ IdsIdle
    /\ issued = {}
    /\ ViewsIdle
    /\ ThreadsIdle
    /\ PdfIdle

NextClient ==
    \E t \in Threads :
        \/ ClientCall(t)
        \/ ClientCheck(t)
        \/ ClientConstruct(t)
        \/ ClientHeartbeat(t)
        \/ ClientReturn(t)

SpecClient == InitClient /\ [][NextClient]_vars

\* C12: over any interleaving of calls whose construction succeeds, at most
\* one client is constructed and every call returns the same instance.
C12_InitialisedOnce ==
    /\ constructed <= 1
    /\ \A t, u \in Threads :
         (returned[t] # "None" /\ returned[u] # "None") => returned[t] = returned[u]

----------------------------------------------------------------------------
(* file_processing.extract_text_from_pdf_with_ocr, lines 42-83 *)

\* what page.extract_text() does on a page, and what
\* pytesseract.image_to_string does on its image
DirectOutcomes == {"empty", "text", "raise"}
OcrOutcomes == {"empty", "blank", "text", "raise"}

PageKinds == [direct : DirectOutcomes, ocr : OcrOutcomes]

\* the files: up to MaxPages pages
PdfFiles == UNION {[1..n -> PageKinds] : n \in 0..MaxPages}

\* the text a call returns on a page: c for a page with text
PageText(outcome, c) ==
    IF outcome = "text" THEN <<c>>
    ELSE IF outcome = "blank" THEN <<" ">>
    ELSE <<>>

\* lines 51-52 and 76-77: a page's text is added, followed by a newline,
\* unless it is empty
AddPage(acc, page_text) ==
    IF page_text # <<>> THEN acc \o page_text \o <<"\n">> ELSE acc

PdfReturn(t) == [kind |-> "return", text |-> t]

\* a handler that returns the OCR text gathered so far
OcrErrorResultPartial(t, ocr) == Strip(ocr)

\* line 83: return text
OcrErrorResult(t, ocr) == t

\* lines 44-48 and 60-62: text = ""; the reader is opened when pypdf is
\* there; an exception of the reader leads to the OCR stage
PdfEntry ==
    /\ ppc = "entry"
    /\ pdf_text' = <<>>
    /\ pdf_i' = 0
    /\ IF pypdf
       THEN \E opens \in BOOLEAN : ppc' = IF opens THEN "direct" ELSE "ocr_check"
       ELSE ppc' = "ocr_check"
    /\ UNCHANGED <<pypdf, ocr_libs, pdf_pages, ocr_text, pdf_result, ocr_error>>
    /\ UNCHANGED <<chunkerVars, clock, idVars, issued, viewVars, threadVars>>

\* lines 49-52 and 60-62: one page of the direct extraction
PdfDirectPage ==
    /\ ppc = "direct"
    /\ pdf_i < Len(pdf_pages)
    /\ LET page == pdf_pages[pdf_i + 1]
       IN  IF page.direct = "raise"
           THEN /\ pdf_text' = <<>>
                /\ ppc' = "ocr_check"
                /\ UNCHANGED pdf_i
           ELSE /\ pdf_text' = AddPage(pdf_text, PageText(page.direct, "d"))
                /\ pdf_i' = pdf_i + 1
                /\ UNCHANGED ppc
    /\ UNCHANGED <<pypdf, ocr_libs, pdf_pages, ocr_text, pdf_result, ocr_error>>
    /\ UNCHANGED <<chunkerVars, clock, idVars, issued, viewVars, threadVars>>

\* lines 53-59: the text is stripped and returned unless it is empty
PdfDirectDone ==
    /\ ppc = "direct"
    /\ pdf_i = Len(pdf_pages)
    /\ pdf_text' = Strip(pdf_text)
    /\ IF Strip(pdf_text) # <<>>
       THEN /\ pdf_result' = PdfReturn(Strip(pdf_text))
            /\ ppc' = "done"
       ELSE /\ ppc' = "ocr_check"
            /\ UNCHANGED pdf_result
    /\ UNCHANGED <<pypdf, ocr_libs, pdf_pages, ocr_text, pdf_i, ocr_error>>
    /\ UNCHANGED <<chunkerVars, clock, idVars, issued, viewVars, threadVars>>

\* lines 65-72 and 80-83: ImportError without the OCR libraries; otherwise
\* ocr_text = "" and the pages are converted to images, which can fail
PdfOcrCheck ==
    /\ ppc = "ocr_check"
    /\ IF ~ocr_libs
       THEN /\ pdf_result' = [kind |-> "ImportError", text |-> <<>>]
            /\ ppc' = "done"
            /\ UNCHANGED <<ocr_text, pdf_i, ocr_error>>
       ELSE /\ ocr_text' = <<>>
            /\ pdf_i' = 0
            /\ \E converts \in BOOLEAN :
                 IF converts
                 THEN /\ ppc' = "ocr"
                      /\ UNCHANGED <<pdf_result, ocr_error>>
                 ELSE /\ ocr_error' = TRUE
                      /\ pdf_result' = PdfReturn(OcrErrorResult(pdf_text, <<>>))
                      /\ ppc' = "done"
    /\ UNCHANGED <<pypdf, ocr_libs, pdf_pages, pdf_text>>
    /\ UNCHANGED <<chunkerVars, clock, idVars, issued, viewVars, threadVars>>

\* lines 73-77 and 80-83: OCR of one page; an exception ends the call
PdfOcrPage ==
    /\ ppc = "ocr"
    /\ pdf_i < Len(pdf_pages)
    /\ LET page == pdf_pages[pdf_i + 1]
       IN  IF page.ocr = "raise"
           THEN /\ ocr_error' = TRUE
                /\ pdf_result' = PdfReturn(OcrErrorResult(pdf_text, ocr_text))
                /\ ppc' = "done"
                /\ UNCHANGED <<ocr_text, pdf_i>>
           ELSE /\ ocr_text' = AddPage(ocr_text, PageText(page.ocr, "o"))
                /\ pdf_i' = pdf_i + 1
                /\ UNCHANGED <<pdf_result, ppc, ocr_error>>
    /\ UNCHANGED <<pypdf, ocr_libs, pdf_pages, pdf_text>>
    /\ UNCHANGED <<chunkerVars, clock, idVars, issued, viewVars, threadVars>>

\* lines 78-79: return ocr_text.strip()
PdfOcrDone ==
    /\ ppc = "ocr"
    /\ pdf_i = Len(pdf_pages)
    /\ pdf_result' = PdfReturn(Strip(ocr_text))
    /\ ppc' = "done"
    /\ UNCHANGED <<pypdf, ocr_libs, pdf_pages, pdf_text, ocr_text, pdf_i, ocr_error>>
    /\ UNCHANGED <<chunkerVars, clock, idVars, issued, viewVars, threadVars>>

\* extract_text_from_file, lines 153-155 and 168-171: what the caller makes
\* of the outcome
PdfExtractResult(result) ==
    IF result.kind = "return" THEN [text |-> result.text, error |-> "none"]
    ELSE [text |-> <<>>, error |-> "import"]

InitPdf ==
    /\ ChunkerIdle
    /\ clock = 0
    /\ IdsIdle
    /\ issued = {}
    /\ ViewsIdle
    /\ ThreadsIdle
    /\ pypdf \in BOOLEAN
    /\ ocr_libs \in BOOLEAN
    /\ pdf_pages \in PdfFiles
    /\ pdf_text = <<>>
    /\ ocr_text = <<>>
    /\ pdf_i = 0
    /\ pdf_result = NoPdfResult
    /\ ppc = "entry"
    /\ ocr_error = FALSE

NextPdf ==
    \/ PdfEntry \/ PdfDirectPage \/ PdfDirectDone
    \/ PdfOcrCheck \/ PdfOcrPage \/ PdfOcrDone

SpecPdf == InitPdf /\ [][NextPdf]_vars

----------------------------------------------------------------------------
(* Properties of extract_text_from_pdf_with_ocr *)

\* a call that ended after an error in the OCR stage
EndedByOcrError == ppc = "done" /\ ocr_error

\* C14 as stated: after an error in the OCR stage the call returns the text
\* extracted before the error.
C14_ReturnsPartialText ==
    EndedByOcrError => pdf_result = PdfReturn(Strip(ocr_text))

\* C14, amended: after an error in the OCR stage the call does not raise and
\* returns the empty string, whatever the OCR of earlier pages produced; the
\* caller gets the same (text, no error) pair as for a file without text.
C14_ReturnsEmptyText ==
    EndedByOcrError =>
        /\ pdf_result = PdfReturn(<<>>)
        /\ PdfExtractResult(pdf_result) = [text |-> <<>>, error |-> "none"]

\* an OCR error after an earlier page gave text
C14_Witness ==
    /\ EndedByOcrError
    /\ Strip(ocr_text) # <<>>
    /\ pdf_result.kind = "return"

=============================================================================
